---- MODULE Spec2Model ----
(***************************************************************************)
(* A model of src/app.py: the tag-frequency pipeline served by             *)
(* GET /api/data.                                                          *)
(*                                                                         *)
(*   generate_growth_pattern  the three-tier synthetic growth series       *)
(*   process_csv              tally of the Tag column, top-10 selection,   *)
(*                            yearly totals and percentages, the summary   *)
(*                            file, the report                             *)
(*   get_data                 the route handler                            *)
(*                                                                         *)
(* Representation.                                                         *)
(*   - A cell of the CSV file is a sequence of character codes (32 is the  *)
(*     space); a row is the sequence of its cells; csv.DictReader gives a  *)
(*     column that a short row does not reach the value None.              *)
(*   - tag_counts is the insertion-ordered dict: a sequence of             *)
(*     <<tag, count>> pairs in first-seen order.                           *)
(*   - A random.uniform draw is sampled on the grid of hundredths of its   *)
(*     range; products are computed exactly (int() truncates).             *)
(*   - A percentage is held in hundredths of a percent (3333 is 33.33).    *)
(*   - Every request has its own copy of the locals of process_csv; the    *)
(*     summary file is the one object all requests share.                  *)
(***************************************************************************)
EXTENDS Integers, Sequences, FiniteSets, TLC

\* ------------------------------------------------------------------ bounds
\* Rows one request reads in the full pipeline.
MaxRows == 6
\* Rows read when only the aggregation is explored (more than TopN tags).
MaxAggRows == 12
\* Rows each of two overlapping requests reads.
MaxRaceRows == 2

\* --------------------------------------------------------------- constants
TopN == 10
NumYears == 3
FirstYear == 2023
TierAAbove == 1500
TierBAbove == 800

Requests == {1, 2}

VARIABLES
    pc,                  \* where each request is
    fieldnames,          \* reader.fieldnames
    total_rows,
    processed_rows,
    tag_counts,
    seen,                \* history: what the file was found to be, and the rows
                         \* the reader has yielded, by kind
    top_tags,
    tag_index,           \* position of the loop of line 94
    call,                \* the running call of generate_growth_pattern
    yearly_data,
    yearly_totals,
    yearly_percentages,
    write_failed,        \* the except of line 127 ran
    result,              \* what process_csv returned
    response,            \* what get_data answered
    summary,             \* tag_summary.csv, shared
    overlapped,          \* history: two requests were in flight at once
    last_open            \* history: the request that opened the summary last

reqVars == <<fieldnames, total_rows, processed_rows, tag_counts, seen>>
synthVars == <<top_tags, tag_index, call, yearly_data>>
pctVars == <<yearly_totals, yearly_percentages>>
fileVars == <<write_failed, summary, last_open>>
outVars == <<result, response>>
vars == <<pc, reqVars, synthVars, pctVars, fileVars, outVars, overlapped>>

\* ----------------------------------------------------------------- helpers
Range(s) == {s[i] : i \in DOMAIN s}

Min(S) == CHOOSE x \in S : \A y \in S : x <= y

Max(S) == CHOOSE x \in S : \A y \in S : x >= y

RECURSIVE SumSeq(_)
SumSeq(s) == IF s = <<>> THEN 0 ELSE Head(s) + SumSeq(Tail(s))

Take(s, n) == SubSeq(s, 1, IF Len(s) < n THEN Len(s) ELSE n)

\* sorted(seq, key=..., reverse=True), keys[i] being the key of seq[i]: stable,
\* so equal keys keep their order.
SortedDescReversedTies(seq, keys) ==
    LET n == Len(seq)
        rank(i) == Cardinality({j \in 1..n :
                        \/ keys[j] > keys[i]
                        \/ keys[j] = keys[i] /\ j > i}) + 1
    IN  [p \in 1..n |-> seq[CHOOSE i \in 1..n : rank(i) = p]]

SortedDesc(seq, keys) ==
    LET n == Len(seq)
        rank(i) == Cardinality({j \in 1..n :
                        \/ keys[j] > keys[i]
                        \/ keys[j] = keys[i] /\ j < i}) + 1
    IN  [p \in 1..n |-> seq[CHOOSE i \in 1..n : rank(i) = p]]

\* ------------------------------------------------------------ the CSV file
Space == 32
Whitespace == {Space}
IdCell == <<49>>

\* The k-th distinct tag of the file. The names are not in alphabetical
\* order, so first-seen order and name order differ.
TagName(k) == <<97 + ((k * 5) % 13)>>

\* The headers a file may have: with the Tag column, or without it.
Headers == {<<"Id", "Tag">>, <<"Id", "Title">>}

ColumnOf(fn, name) == CHOOSE i \in DOMAIN fn : fn[i] = name

\* csv.DictReader: row[name] is None when the row is too short to reach it.
HasValue(row, fn, name) == ColumnOf(fn, name) <= Len(row)

ValueOf(row, fn, name) == row[ColumnOf(fn, name)]

\* str.strip()
Strip(s) ==
    LET keep == {i \in DOMAIN s : s[i] \notin Whitespace}
    IN  IF keep = {} THEN <<>> ELSE SubSeq(s, Min(keep), Max(keep))

IsBlank(cell) == \A i \in DOMAIN cell : cell[i] \in Whitespace

\* The Tag cells offered for the next row: blank ones, every tag seen so far
\* and the next unseen tag, each bare and with spaces around it.
TagCells(tc) ==
    LET names == {TagName(k) : k \in 1..(Len(tc) + 1)}
    IN  {<<>>, <<Space>>}
        \cup names
        \cup {<<Space>> \o t : t \in names}
        \cup {t \o <<Space>> : t \in names}

\* The rows offered: full ones, and (when Tag is not the first column) a row
\* that ends before the Tag column.
RowsOffered(fn, tc) ==
    LET col == ColumnOf(fn, "Tag")
        lead == [i \in 1..(col - 1) |-> IdCell]
    IN  {lead \o <<c>> : c \in TagCells(tc)}
        \cup (IF col > 1 THEN {lead} ELSE {})

\* --------------------------------------------------------------- the tally
\* `if tag:` (line 66)
AnyTagCounts(tag) == TRUE

IsTruthy(tag) == tag # <<>>

\* tag_counts[tag] += 1 on a defaultdict(int) (line 67)
Increment(tc, tag) ==
    IF \E i \in DOMAIN tc : tc[i][1] = tag
    THEN [i \in DOMAIN tc |->
            IF tc[i][1] = tag THEN <<tag, tc[i][2] + 1>> ELSE tc[i]]
    ELSE Append(tc, <<tag, 1>>)

CountOf(item) == item[2]

\* sorted(tag_counts.items(), key=lambda x: x[1], reverse=True)[:10] (line 86)
SelectTopReversedTies(tc) ==
    Take(SortedDescReversedTies(tc, [i \in DOMAIN tc |-> CountOf(tc[i])]), TopN)

SelectTop(tc) ==
    Take(SortedDesc(tc, [i \in DOMAIN tc |-> CountOf(tc[i])]), TopN)

\* The 'metadata' entry of the report (lines 153-158).
Metadata(r) ==
    [total_rows |-> total_rows[r],
     processed_rows |-> processed_rows[r],
     unique_tags |-> Len(tag_counts[r]),
     top_tags_count |-> Len(top_tags[r])]

\* ------------------------------------------------------------ error values
ErrNotFound == [error |-> "CSV file not found"]
ErrStructure == [error |-> "Invalid CSV structure"]
ErrNoData == [error |-> "No valid data found in CSV"]
\* except Exception as e (line 81): f'Error reading CSV file: {str(e)}'
ErrReadingNoHeader ==
    [error |-> "Error reading CSV file: argument of type 'NoneType' is not iterable"]
ErrReadingNoneTag ==
    [error |-> "Error reading CSV file: 'NoneType' object has no attribute 'strip'"]

NoResult == [pending |-> TRUE]

IsError(x) == "error" \in DOMAIN x

IsReport(x) == "tags" \in DOMAIN x

\* ------------------------------------------------------------------- state
NoCall == [base_count |-> 0, years |-> <<>>, year_index |-> 0,
           counts |-> <<>>, draw |-> 0]

NoSeen == [file |-> "unread", nonblank |-> 0, blank |-> 0, short |-> 0]

InitRest ==
    /\ fieldnames = [r \in Requests |-> <<>>]
    /\ total_rows = [r \in Requests |-> 0]
    /\ processed_rows = [r \in Requests |-> 0]
    /\ tag_counts = [r \in Requests |-> <<>>]
    /\ seen = [r \in Requests |-> NoSeen]
    /\ top_tags = [r \in Requests |-> <<>>]
    /\ tag_index = [r \in Requests |-> 0]
    /\ yearly_data = [r \in Requests |-> [y \in 1..NumYears |-> <<>>]]
    /\ yearly_totals = [r \in Requests |-> <<>>]
    /\ yearly_percentages = [r \in Requests |-> <<>>]
    /\ write_failed = [r \in Requests |-> FALSE]
    /\ result = [r \in Requests |-> NoResult]
    /\ response = [r \in Requests |-> NoResult]
    /\ overlapped = FALSE
    /\ last_open = 0

Init ==
    /\ pc = [r \in Requests |-> "idle"]
    /\ call = [r \in Requests |-> NoCall]
    /\ InitRest
    /\ summary = <<>>

Active(r) == pc[r] \notin {"idle", "done"}

\* get_data once process_csv has returned data: return jsonify(data), status
\* 200 whatever the payload (lines 168-170). The 500 of lines 171-173 needs
\* an exception out of process_csv; none of its statements outside the two
\* try blocks raises here.
GetData(data) == [status |-> 200, body |-> data]

\* process_csv returns data to get_data, which answers.
Returns(r, data) ==
    /\ pc' = [pc EXCEPT ![r] = "done"]
    /\ result' = [result EXCEPT ![r] = data]
    /\ response' = [response EXCEPT ![r] = GetData(data)]

\* process_csv goes on at `next`.
GoesOn(r, next) ==
    /\ pc' = [pc EXCEPT ![r] = next]
    /\ UNCHANGED <<result, response>>

\* ------------------------------------------------- process_csv: aggregation
\* GET /api/data reaches get_data, which calls process_csv (lines 166-168,
\* 34-44). Requests are numbered in the order they arrive.
Start(r) ==
    /\ pc[r] = "idle"
    /\ \A o \in Requests : o < r => pc[o] # "idle"
    /\ pc' = [pc EXCEPT ![r] = "exists"]
    /\ overlapped' = (overlapped \/ \E o \in Requests \ {r} : Active(o))
    /\ UNCHANGED <<reqVars, synthVars, pctVars, fileVars, outVars>>

\* if not os.path.exists(csv_path) (lines 46-48)
CheckExists(r) ==
    /\ pc[r] = "exists"
    /\ \E exists \in BOOLEAN :
        IF exists
        THEN /\ GoesOn(r, "header")
             /\ seen' = [seen EXCEPT ![r].file = "present"]
        ELSE /\ Returns(r, ErrNotFound)
             /\ seen' = [seen EXCEPT ![r].file = "absent"]
    /\ UNCHANGED <<fieldnames, total_rows, processed_rows, tag_counts,
                   synthVars, pctVars, fileVars, overlapped>>

\* open, DictReader, the check of the required field (lines 51-60). An empty
\* file has fieldnames None: `field in None` raises TypeError, which the
\* except of line 81 turns into an error value.
ReadHeader(r) ==
    /\ pc[r] = "header"
    /\ \E empty \in BOOLEAN, fn \in Headers :
        IF empty
        THEN /\ Returns(r, ErrReadingNoHeader)
             /\ seen' = [seen EXCEPT ![r].file = "empty"]
             /\ UNCHANGED fieldnames
        ELSE IF "Tag" \notin Range(fn)
        THEN /\ Returns(r, ErrStructure)
             /\ fieldnames' = [fieldnames EXCEPT ![r] = fn]
             /\ UNCHANGED seen
        ELSE /\ GoesOn(r, "rows")
             /\ fieldnames' = [fieldnames EXCEPT ![r] = fn]
             /\ UNCHANGED seen
    /\ UNCHANGED <<total_rows, processed_rows, tag_counts, synthVars,
                   pctVars, fileVars, overlapped>>

\* One turn of `for row in reader` (lines 62-72). row['Tag'] is None for a
\* short row and None.strip() raises AttributeError; the except of line 70
\* names only ValueError and KeyError, so the error leaves the loop and is
\* caught at line 81.
ReadRow(r, bound) ==
    /\ pc[r] = "rows"
    /\ total_rows[r] < bound
    /\ \E row \in RowsOffered(fieldnames[r], tag_counts[r]) :
        /\ total_rows' = [total_rows EXCEPT ![r] = @ + 1]
        /\ IF ~HasValue(row, fieldnames[r], "Tag")
           THEN /\ Returns(r, ErrReadingNoneTag)
                /\ seen' = [seen EXCEPT ![r].short = @ + 1]
                /\ UNCHANGED <<tag_counts, processed_rows>>
           ELSE LET cell == ValueOf(row, fieldnames[r], "Tag")
                    tag == Strip(cell)
                IN  /\ IF IsTruthy(tag)
                       THEN /\ tag_counts' = [tag_counts EXCEPT
                                                ![r] = Increment(@, tag)]
                            /\ processed_rows' = [processed_rows EXCEPT
                                                    ![r] = @ + 1]
                       ELSE UNCHANGED <<tag_counts, processed_rows>>
                    /\ seen' = IF IsBlank(cell)
                               THEN [seen EXCEPT ![r].blank = @ + 1]
                               ELSE [seen EXCEPT ![r].nonblank = @ + 1]
                    /\ UNCHANGED <<pc, result, response>>
    /\ UNCHANGED <<fieldnames, synthVars, pctVars, fileVars, overlapped>>

\* The reader is exhausted (lines 74-91): no usable row is an error value;
\* otherwise the top tags are selected and the yearly tables start empty.
EndOfRows(r) ==
    /\ pc[r] = "rows"
    /\ IF processed_rows[r] = 0
       THEN /\ Returns(r, ErrNoData)
            /\ UNCHANGED <<top_tags, tag_index>>
       ELSE /\ GoesOn(r, "synth")
            /\ top_tags' = [top_tags EXCEPT ![r] = SelectTop(tag_counts[r])]
            /\ tag_index' = [tag_index EXCEPT ![r] = 1]
    /\ UNCHANGED <<reqVars, call, yearly_data, pctVars, fileVars, overlapped>>

\* ------------------------------------------------ generate_growth_pattern
\* The branch taken for a base count (lines 15, 21, 26).
TierOfInclusive(base) ==
    IF base >= TierAAbove THEN "A"
    ELSE IF base >= TierBAbove THEN "B"
    ELSE "C"

TierOf(base) ==
    IF base > TierAAbove THEN "A"
    ELSE IF base > TierBAbove THEN "B"
    ELSE "C"

\* The values of random.uniform in hundredths: (0.95, 1.05), (-0.05, 0.05),
\* (-0.1, 0.15) (lines 18, 23, 29).
DrawsOf(tier) ==
    CASE tier = "A" -> 95..105
      [] tier = "B" -> (-5)..5
      [] tier = "C" -> (-10)..15

\* 0.4 + math.log(year_index + 2) * 0.3 in millionths, year_index 0, 1, 2
\* (line 17).
LogGrowth == <<607944, 729584, 815888>>

\* int(base_count * growth * variation) and int(base_count * growth) (lines
\* 17-19, 23-24, 29-30), year_index i from 0 and the draw d in hundredths.
\* The Tier A product is split so that it stays within 32 bits.
GrowthCount(base, i, d) ==
    CASE TierOf(base) = "A" ->
            LET P == base * d
                hi == LogGrowth[i + 1] \div 1000
                lo == LogGrowth[i + 1] % 1000
            IN  (P * hi + (P * lo) \div 1000) \div 100000
      [] TierOf(base) = "B" -> (base * (40 + 18 * i + d)) \div 100
      [] TierOf(base) = "C" -> (base * (40 + 15 * i + d)) \div 100

\* range(3): the years argument is not read (lines 16, 22, 27).
LoopCountOfYears(years) == Len(years)

LoopCount(years) == NumYears

Years == [y \in 1..NumYears |-> FirstYear + y - 1]

\* counts = generate_growth_pattern(base_count, years) is entered (lines 94,
\* 95, 13).
CallGrowth(r) ==
    /\ pc[r] = "synth"
    /\ tag_index[r] <= Len(top_tags[r])
    /\ pc' = [pc EXCEPT ![r] = "growth"]
    /\ call' = [call EXCEPT ![r] =
                  [base_count |-> top_tags[r][tag_index[r]][2],
                   years |-> Years, year_index |-> 0, counts |-> <<>>,
                   draw |-> 0]]
    /\ UNCHANGED <<reqVars, top_tags, tag_index, yearly_data, pctVars,
                   fileVars, outVars, overlapped>>

\* One turn of the loop of the tier's branch: a draw, the count, the append.
\* The frame keeps the draw (a history of the call) only when traced.
GrowthIter(r, traced) ==
    /\ pc[r] = "growth"
    /\ call[r].year_index < LoopCount(call[r].years)
    /\ \E d \in DrawsOf(TierOf(call[r].base_count)) :
        call' = [call EXCEPT
                   ![r].counts = Append(@, GrowthCount(call[r].base_count,
                                                       call[r].year_index, d)),
                   ![r].year_index = @ + 1,
                   ![r].draw = IF traced THEN d ELSE @]
    /\ UNCHANGED <<pc, reqVars, top_tags, tag_index, yearly_data, pctVars,
                   fileVars, outVars, overlapped>>

\* return counts, and the store into yearly_data (lines 32, 96-97); after the
\* last tag the loop of line 104 starts.
GrowthReturn(r) ==
    /\ pc[r] = "growth"
    /\ call[r].year_index = LoopCount(call[r].years)
    /\ yearly_data' = [yearly_data EXCEPT ![r] =
                         [y \in 1..NumYears |-> Append(@[y], call[r].counts[y])]]
    /\ call' = [call EXCEPT ![r] = NoCall]
    /\ tag_index' = [tag_index EXCEPT ![r] = @ + 1]
    /\ pc' = [pc EXCEPT ![r] = IF tag_index[r] = Len(top_tags[r])
                                THEN "totals" ELSE "synth"]
    /\ UNCHANGED <<reqVars, top_tags, pctVars, fileVars, outVars, overlapped>>

\* ------------------------------------------- yearly totals and percentages
\* round(n / d) to the nearest integer, an exact half to the even neighbour.
\* Python rounds the float it computed, which differs from this only at an
\* exact half; a percentage n / d is an exact half only when d is a multiple
\* of 32 or of 3125.
RoundDiv(n, d) ==
    LET q == n \div d
        rem == n % d
    IN  IF 2 * rem < d THEN q
        ELSE IF 2 * rem > d THEN q + 1
        ELSE IF q % 2 = 0 THEN q ELSE q + 1

\* round((tag_count / total_questions) * 100 if total_questions > 0 else 0, 2)
\* in hundredths of a percent (lines 113-114).
PercentageWhole(tag_count, total_questions) ==
    IF total_questions > 0
    THEN 100 * RoundDiv(tag_count * 100, total_questions)
    ELSE 0

Percentage(tag_count, total_questions) ==
    IF total_questions > 0
    THEN RoundDiv(tag_count * 10000, total_questions)
    ELSE 0

\* total_questions of one year (lines 105-108)
YearTotalSkipsFirst(counts) == SumSeq(Tail(counts))

YearTotal(counts) == SumSeq(counts)

\* `for year in years` (lines 100-114): each year's total, then each tag's
\* percentage of it.
YearTotals(r) ==
    /\ pc[r] = "totals"
    /\ yearly_totals' = [yearly_totals EXCEPT ![r] =
          [y \in 1..NumYears |-> YearTotal(yearly_data[r][y])]]
    /\ yearly_percentages' = [yearly_percentages EXCEPT ![r] =
          [y \in 1..NumYears |->
              [i \in DOMAIN yearly_data[r][y] |->
                  Percentage(yearly_data[r][y][i],
                             YearTotal(yearly_data[r][y]))]]]
    /\ pc' = [pc EXCEPT ![r] = "summary_open"]
    /\ UNCHANGED <<reqVars, synthVars, fileVars, outVars, overlapped>>

\* ------------------------------------------------------- tag_summary.csv
HeaderLine == [kind |-> "header", year |-> 0, tag |-> <<>>, count |-> 0,
               total |-> 0, percentage |-> 0]

\* The lines the request writes, in order (lines 120-126).
SummaryLines(r) ==
    LET n == Len(top_tags[r])
    IN  <<HeaderLine>> \o
        [k \in 1..(NumYears * n) |->
            LET y == ((k - 1) \div n) + 1
                i == ((k - 1) % n) + 1
            IN  [kind |-> "row", year |-> Years[y], tag |-> top_tags[r][i][1],
                 count |-> yearly_data[r][y][i], total |-> yearly_totals[r][y],
                 percentage |-> yearly_percentages[r][y][i]]]

\* The handle's buffer reaches the file when the handle is closed: one write
\* at offset 0 over whatever the file holds by then, which keeps what lies
\* beyond the written lines.
Flushed(file, lines) ==
    lines \o SubSeq(file, Len(lines) + 1, Len(file))

\* open(..., 'w') truncates; another mode would keep the old content.
OpenedNoTruncate(file) == file

Opened(file) == <<>>

\* Where process_csv goes on after the except of lines 127-128.
AfterWriteErrorDone == "done"

AfterWriteError == "report"

\* open('tag_summary.csv', 'w', ...) (line 118): it truncates the file, or
\* raises and the except of line 127 only prints.
OpenSummary(r) ==
    /\ pc[r] = "summary_open"
    /\ last_open' = r
    /\ \E ok \in BOOLEAN :
        IF ok
        THEN /\ summary' = Opened(summary)
             /\ pc' = [pc EXCEPT ![r] = "summary_write"]
             /\ UNCHANGED write_failed
        ELSE /\ write_failed' = [write_failed EXCEPT ![r] = TRUE]
             /\ pc' = [pc EXCEPT ![r] = AfterWriteError]
             /\ UNCHANGED summary
    /\ UNCHANGED <<reqVars, synthVars, pctVars, outVars, overlapped>>

\* The body of the with block (lines 119-126) and its exit. The rows go to
\* the handle's buffer, which only this request touches; k of them are
\* written before a writerow raises (all of them when none does), and leaving
\* the block, normally or by the exception, closes the handle, which flushes
\* the buffer.
WriteSummary(r) ==
    /\ pc[r] = "summary_write"
    /\ \E k \in 0..Len(SummaryLines(r)) :
        /\ summary' = Flushed(summary, SubSeq(SummaryLines(r), 1, k))
        /\ IF k = Len(SummaryLines(r))
           THEN /\ pc' = [pc EXCEPT ![r] = "report"]
                /\ UNCHANGED write_failed
           ELSE /\ write_failed' = [write_failed EXCEPT ![r] = TRUE]
                /\ pc' = [pc EXCEPT ![r] = AfterWriteError]
    /\ UNCHANGED <<reqVars, synthVars, pctVars, outVars, last_open, overlapped>>

\* -------------------------------------------------------------- the report
\* round(total_percentage / len(years), 2) (lines 133-134)
AverageFloor(percentages) == SumSeq(percentages) \div NumYears

Average(percentages) == RoundDiv(SumSeq(percentages), NumYears)

AverageOf(entry) == entry.average

\* tags_data before the sort (lines 137-144)
TagsData(r) ==
    [i \in DOMAIN top_tags[r] |->
        LET percentages == [y \in 1..NumYears |-> yearly_percentages[r][y][i]]
        IN  [name |-> top_tags[r][i][1],
             data |-> percentages,
             average |-> Average(percentages)]]

\* tags_data.sort(key=lambda x: x['average'], reverse=True) (line 147)
SortTagsReversedTies(td) ==
    SortedDescReversedTies(td, [i \in DOMAIN td |-> AverageOf(td[i])])

SortTags(td) ==
    SortedDesc(td, [i \in DOMAIN td |-> AverageOf(td[i])])

\* The returned dict (lines 149-159)
Report(r) ==
    [years |-> Years,
     tags |-> SortTags(TagsData(r)),
     total_questions |-> yearly_totals[r],
     metadata |-> Metadata(r)]

\* Lines 130-159, and get_data's answer.
BuildReport(r) ==
    /\ pc[r] = "report"
    /\ Returns(r, Report(r))
    /\ UNCHANGED <<reqVars, synthVars, pctVars, fileVars, overlapped>>

\* ---------------------------------------------------------- specifications
\* One request, the whole pipeline.
Next ==
    \/ Start(1)
    \/ CheckExists(1)
    \/ ReadHeader(1)
    \/ ReadRow(1, MaxRows)
    \/ EndOfRows(1)
    \/ CallGrowth(1)
    \/ GrowthIter(1, FALSE)
    \/ GrowthReturn(1)
    \/ YearTotals(1)
    \/ OpenSummary(1)
    \/ WriteSummary(1)
    \/ BuildReport(1)

Spec == Init /\ [][Next]_vars

\* Two requests served by two threads of the server.
NextRace ==
    \E r \in Requests :
        \/ Start(r)
        \/ CheckExists(r)
        \/ ReadHeader(r)
        \/ ReadRow(r, MaxRaceRows)
        \/ EndOfRows(r)
        \/ CallGrowth(r)
        \/ GrowthIter(r, FALSE)
        \/ GrowthReturn(r)
        \/ YearTotals(r)
        \/ OpenSummary(r)
        \/ WriteSummary(r)
        \/ BuildReport(r)

SpecRace == Init /\ [][NextRace]_vars

\* One call of generate_growth_pattern, whatever its arguments.
GrowthBases == {0, 1, 2, 3, 4, 5, 10, 799, 800, 801, 1000, 1499, 1500, 1501, 2000}

YearsArgs == {<<>>, <<2023>>, Years, <<2021, 2022, 2023, 2024, 2025>>}

InitGrowth ==
    /\ \E b \in GrowthBases, ys \in YearsArgs :
        call = [r \in Requests |->
                  IF r = 1
                  THEN [base_count |-> b, years |-> ys, year_index |-> 0,
                        counts |-> <<>>, draw |-> 0]
                  ELSE NoCall]
    /\ pc = [r \in Requests |-> IF r = 1 THEN "growth" ELSE "idle"]
    /\ InitRest
    /\ summary = <<>>

NextGrowth == GrowthIter(1, TRUE)

SpecGrowth == InitGrowth /\ [][NextGrowth]_vars

\* ------------------------------------------------------------ aggregation
NextAgg ==
    \/ Start(1)
    \/ CheckExists(1)
    \/ ReadHeader(1)
    \/ ReadRow(1, MaxAggRows)
    \/ EndOfRows(1)

SpecAgg == Init /\ [][NextAgg]_vars

\* ------------------------------------------------------- aggregation claims
PosIn(tc, item) == CHOOSE i \in DOMAIN tc : tc[i] = item

Selected(r) == pc[r] = "synth"

\* C1: the top-tag list has min(10, distinct tags) entries, all of them
\* entries of the tally, in non-increasing order of count, no left-out tag
\* has a higher count than a listed one, tags with equal counts stand in
\* first-seen order (also across the cut), and the metadata counts are the
\* list's length and the number of distinct tags.
C1_TopTags ==
    \A r \in Requests : Selected(r) =>
        LET tc == tag_counts[r]
            tt == top_tags[r]
            left == Range(tc) \ Range(tt)
        IN  /\ Len(tt) = (IF Len(tc) < TopN THEN Len(tc) ELSE TopN)
            /\ Range(tt) \subseteq Range(tc)
            /\ Cardinality(Range(tt)) = Len(tt)
            /\ \A i, j \in DOMAIN tt : i < j =>
                 /\ tt[i][2] >= tt[j][2]
                 /\ tt[i][2] = tt[j][2] => PosIn(tc, tt[i]) < PosIn(tc, tt[j])
            /\ \A x \in left : \A i \in DOMAIN tt :
                 /\ tt[i][2] >= x[2]
                 /\ tt[i][2] = x[2] => PosIn(tc, tt[i]) < PosIn(tc, x)
            /\ Metadata(r).top_tags_count = Len(tt)
            /\ Metadata(r).unique_tags = Len(tc)

\* More than ten distinct tags, a tie inside the list behind a higher count
\* seen later, and a left-out tag tied with a listed one.
C1_Witness ==
    /\ Selected(1)
    /\ Len(tag_counts[1]) > TopN
    /\ Len(top_tags[1]) = TopN
    /\ \E i \in DOMAIN tag_counts[1] :
         /\ i > 1
         /\ tag_counts[1][i][2] > tag_counts[1][1][2]
         /\ top_tags[1][1] = tag_counts[1][i]
    /\ \E x \in Range(tag_counts[1]) \ Range(top_tags[1]) :
         x[2] = top_tags[1][TopN][2]

\* C3: while every row read had a readable Tag field, processed_rows is the
\* number of rows with a non-blank tag and the sum of the tally, total_rows
\* is processed_rows plus the number of blank-tag rows, and the empty string
\* is no key of the tally.
C3_Counters ==
    \A r \in Requests : seen[r].short = 0 =>
        /\ processed_rows[r] = seen[r].nonblank
        /\ processed_rows[r] =
             SumSeq([i \in DOMAIN tag_counts[r] |-> tag_counts[r][i][2]])
        /\ total_rows[r] = processed_rows[r] + seen[r].blank
        /\ \A i \in DOMAIN tag_counts[r] :
             /\ tag_counts[r][i][1] # <<>>
             /\ tag_counts[r][i][2] >= 1

C3_Witness ==
    /\ Selected(1)
    /\ seen[1].short = 0
    /\ seen[1].blank >= 2
    /\ Len(tag_counts[1]) >= 2
    /\ \E i \in DOMAIN tag_counts[1] : tag_counts[1][i][2] >= 2

\* ---------------------------------------------------------- request claims
Done(r) == pc[r] = "done"

\* The request got as far as the summary file.
PastWrite(r) == pc[r] \in {"report", "done"} /\ yearly_totals[r] # <<>>

Answered(r) == Done(r) /\ "status" \in DOMAIN response[r]

Reported(r) == Answered(r) /\ IsReport(response[r].body)

Abs(x) == IF x < 0 THEN -x ELSE x

\* C2 (as claimed): a row without a readable Tag field is skipped and the
\* request goes on; with another row tallied it returns a full report, in
\* which total_rows exceeds processed_rows by the number of skipped rows.
C2_ShortRowSkipped ==
    \A r \in Requests :
        (Done(r) /\ seen[r].short > 0 /\ seen[r].nonblank > 0) =>
            /\ Reported(r)
            /\ response[r].body.metadata.total_rows
                 - response[r].body.metadata.processed_rows
               = seen[r].short + seen[r].blank

\* C6 (as claimed): every failure of the aggregation is returned as a value
\* with the one key 'error' and answered with 200, no growth pattern having
\* been generated; the file absent gives 'CSV file not found', a header
\* without Tag 'Invalid CSV structure', no row processed 'No valid data found
\* in CSV'.
C6_Failures ==
    \A r \in Requests : Done(r) =>
        /\ Answered(r)
        /\ response[r].status = 200
        /\ response[r].body = result[r]
        /\ IsError(result[r]) =>
             /\ DOMAIN result[r] = {"error"}
             /\ top_tags[r] = <<>>
             /\ \A y \in 1..NumYears : yearly_data[r][y] = <<>>
        /\ seen[r].file = "absent" => result[r] = ErrNotFound
        /\ (seen[r].file = "present" /\ "Tag" \notin Range(fieldnames[r]))
             => result[r] = ErrStructure
        /\ (seen[r].file # "absent" /\ "Tag" \in Range(fieldnames[r])
              /\ processed_rows[r] = 0)
             => result[r] = ErrNoData

\* C4: in a report, each year's total is the sum of that year's synthetic
\* counts over the top tags; when it is not zero the percentages of the year
\* sum to 100 within 0.1, and when it is zero every percentage is 0.
C4_Percentages ==
    \A r \in Requests : Reported(r) =>
        LET rep == response[r].body
        IN  \A y \in 1..NumYears :
              LET total == rep.total_questions[y]
                  sum == SumSeq([i \in DOMAIN rep.tags |-> rep.tags[i].data[y]])
              IN  /\ total = SumSeq(yearly_data[r][y])
                  /\ total # 0 => Abs(sum - 10000) <= 10
                  /\ total = 0 => \A i \in DOMAIN rep.tags :
                                     rep.tags[i].data[y] = 0

\* A report with a year whose total is 0 and a year whose rounded
\* percentages do not add up to exactly 100.
C4_Witness ==
    /\ Reported(1)
    /\ \E y \in 1..NumYears : response[1].body.total_questions[y] = 0
    /\ \E y \in 1..NumYears :
         /\ response[1].body.total_questions[y] > 0
         /\ SumSeq([i \in DOMAIN response[1].body.tags |->
                      response[1].body.tags[i].data[y]]) # 10000

\* The place of a report entry's tag in the top-tag list.
TopPos(r, entry) == CHOOSE i \in DOMAIN top_tags[r] : top_tags[r][i][1] = entry.name

\* C7: the 'tags' list of a report has one entry per top tag, with the tag's
\* three yearly percentages and their mean rounded to 2 decimals as
\* 'average'; it is in non-increasing order of 'average', and entries with
\* equal 'average' stand in the order of the top-tag list.
C7_TagsOrder ==
    \A r \in Requests : Reported(r) =>
        LET tags == response[r].body.tags
        IN  /\ Len(tags) = Len(top_tags[r])
            /\ {tags[j].name : j \in DOMAIN tags}
                 = {top_tags[r][i][1] : i \in DOMAIN top_tags[r]}
            /\ \A j \in DOMAIN tags :
                 LET s == SumSeq(tags[j].data)
                 IN  /\ tags[j].data = [y \in 1..NumYears |->
                            yearly_percentages[r][y][TopPos(r, tags[j])]]
                     /\ 2 * Abs(NumYears * tags[j].average - s) <= NumYears
            /\ \A j, k \in DOMAIN tags : j < k =>
                 /\ tags[j].average >= tags[k].average
                 /\ tags[j].average = tags[k].average
                      => TopPos(r, tags[j]) < TopPos(r, tags[k])

\* A report of three tags which the sort reordered and in which two entries
\* tie on the average.
C7_Witness ==
    /\ Reported(1)
    /\ Len(response[1].body.tags) >= 3
    /\ response[1].body.tags[1].name # top_tags[1][1][1]
    /\ \E j \in DOMAIN response[1].body.tags :
         /\ j > 1
         /\ response[1].body.tags[j].average
              = response[1].body.tags[j - 1].average
         /\ response[1].body.tags[j].average > 0

\* C8: a request that reached the summary file is answered 200 with the
\* report its rows and draws determine (years, totals, one entry per top tag
\* with its percentages, metadata), whether or not the write of the summary
\* failed.
C8_WriteFailureHarmless ==
    \A r \in Requests : (Done(r) /\ PastWrite(r)) =>
        /\ Reported(r)
        /\ response[r].status = 200
        /\ response[r].body.years = <<2023, 2024, 2025>>
        /\ response[r].body.total_questions
             = [y \in 1..NumYears |-> SumSeq(yearly_data[r][y])]
        /\ response[r].body.metadata
             = [total_rows |-> total_rows[r],
                processed_rows |-> processed_rows[r],
                unique_tags |-> Len(tag_counts[r]),
                top_tags_count |-> Len(top_tags[r])]
        /\ Len(response[r].body.tags) = Len(top_tags[r])
        /\ \A i \in DOMAIN top_tags[r] :
             \E j \in DOMAIN response[r].body.tags :
                /\ response[r].body.tags[j].name = top_tags[r][i][1]
                /\ response[r].body.tags[j].data
                     = [y \in 1..NumYears |-> yearly_percentages[r][y][i]]

\* A request answered with its report although a row write failed and left
\* a cut table in the file.
C8_Witness ==
    /\ Reported(1)
    /\ write_failed[1]
    /\ summary # <<>>
    /\ summary # SummaryLines(1)
    /\ Len(top_tags[1]) >= 2

\* -------------------------------------------------------- summary file claims
\* The last request to open the summary file, with no request having
\* overlapped another, has come past its write.
LastWriter(r) == ~overlapped /\ last_open = r /\ PastWrite(r)

Finished(r) ==
    pc[r] = "growth" /\ call[r].year_index >= LoopCount(call[r].years)

\* C5 (as claimed): whatever the years argument, the call returns exactly 3
\* integers, each strictly positive, for every base count >= 0.
C5_AllPositive ==
    \A r \in Requests : Finished(r) =>
        /\ Len(call[r].counts) = 3
        /\ \A i \in DOMAIN call[r].counts : call[r].counts[i] > 0

\* C5: whatever the years argument, the call returns exactly 3 integers, none
\* negative, and each strictly positive when the base count is at least 4.
C5_ThreeCounts ==
    \A r \in Requests : Finished(r) =>
        /\ Len(call[r].counts) = 3
        /\ \A i \in DOMAIN call[r].counts :
             /\ call[r].counts[i] \in Nat
             /\ call[r].base_count >= 4 => call[r].counts[i] > 0

\* A call with a positive base count and a years argument of another length
\* returns three counts, one of them 0.
C5_Witness ==
    /\ Finished(1)
    /\ call[1].base_count > 0
    /\ Len(call[1].years) # 3
    /\ Len(call[1].counts) = 3
    /\ \E i \in DOMAIN call[1].counts : call[1].counts[i] = 0

\* C10: the count of year i is the base times growth times the draw, cut to
\* an integer: up to 800 the growth is 0.4 + 0.15 i plus a draw in
\* [-0.10, 0.15]; from 801 to 1500 it is 0.4 + 0.18 i plus a draw in
\* [-0.05, 0.05]; above 1500 it is 0.4 + 0.3 ln(i + 2) times a draw in
\* [0.95, 1.05]. So the count lies between the base times the growth at the
\* ends of the draw's range, cut to an integer, and is never negative.
C10_Tiers ==
    \A r \in Requests :
        (pc[r] = "growth" /\ call[r].year_index > 0) =>
            LET b == call[r].base_count
                i == call[r].year_index - 1
                c == call[r].counts[call[r].year_index]
                d == call[r].draw
            IN  /\ c >= 0
                /\ b <= 800 =>
                     /\ d \in -10..15
                     /\ 100 * c <= b * (40 + 15 * i + d)
                     /\ b * (40 + 15 * i + d) < 100 * (c + 1)
                     /\ c >= (b * (30 + 15 * i)) \div 100
                     /\ c <= (b * (55 + 15 * i)) \div 100
                /\ (b > 800 /\ b <= 1500) =>
                     /\ d \in -5..5
                     /\ 100 * c <= b * (40 + 18 * i + d)
                     /\ b * (40 + 18 * i + d) < 100 * (c + 1)
                     /\ c >= (b * (35 + 18 * i)) \div 100
                     /\ c <= (b * (45 + 18 * i)) \div 100
                /\ b > 1500 =>
                     /\ d \in 95..105
                     /\ c >= (b * <<577, 693, 775>>[i + 1]) \div 1000
                     /\ c <= (b * <<639, 767, 857>>[i + 1]) \div 1000

\* The third count of a call at the upper edge of the middle tier, drawn at
\* the top of its range: int(1500 * (0.4 + 0.36 + 0.05)) = 1215.
C10_Witness ==
    /\ pc[1] = "growth"
    /\ call[1].base_count = 1500
    /\ call[1].year_index = 3
    /\ call[1].draw = 5
    /\ call[1].counts[3] = 1215

====
